---- MODULE Spec2Model ----
(***************************************************************************)
(* Plugin identifier resolution of tools/legacy/sample_common              *)
(* (plugin_utils.cpp): AreGuidsEqual, ConvertStringToGuid,                 *)
(* msdkGetPluginUID, ParsePluginGuid, ParsePluginPath, and the decode      *)
(* loop of examples/api2x/hello-sharing-ocl (main).                        *)
(*                                                                         *)
(* A string (msdk_string) is a sequence of one-character strings; an       *)
(* mfxPluginUID is its Data array, a sequence of 16 bytes (Data[i] of the  *)
(* code is element i+1 of the sequence).                                   *)
(***************************************************************************)
EXTENDS Integers, Sequences, FiniteSets, TLC

\* ------------------------------------------------------------------------
\* Program constants
\* ------------------------------------------------------------------------

\* sizeof(mfxPluginUID): mfxU8 Data[16]; also the bound of the decode loop
GuidSize == 16

\* the only text length accepted as a plain GUID value
GuidTextLen == 32

\* width of mfxU8
ByteWidth == 8

Pow2(n) == 2^n

\* mfxStatus values used by plugin_utils.cpp
MFX_ERR_NONE == "MFX_ERR_NONE"

MFX_ERR_UNKNOWN == "MFX_ERR_UNKNOWN"

\* MfxPluginLoadType tags, and the tag of a default-constructed sPluginParams
MFX_PLUGINLOAD_TYPE_GUID == "MFX_PLUGINLOAD_TYPE_GUID"

MFX_PLUGINLOAD_TYPE_FILE == "MFX_PLUGINLOAD_TYPE_FILE"

PLUGINLOAD_TYPE_UNSET == "UNSET"

\* mfxIMPL values (an integer: a base implementation plus optional VIA flags)
MFX_IMPL_AUTO == 0

MFX_IMPL_SOFTWARE == 1

MFX_IMPL_HARDWARE == 2

MFX_IMPL_AUTO_ANY == 3

MFX_IMPL_HARDWARE_ANY == 4

MFX_IMPL_VIA_D3D11 == 768

\* msdkComponentType is a bit mask; a value is modelled as its set of bits,
\* so that (MSDK_VENCODE | MSDK_FEI) is the union of the two
MSDK_VDECODE == {"VDECODE"}

MSDK_VENCODE == {"VENCODE"}

MSDK_VPP == {"VPP"}

MSDK_VENC == {"VENC"}

MSDK_FEI == {"FEI"}

\* codec FourCCs
MFX_CODEC_AVC == "AVC "

MFX_CODEC_HEVC == "HEVC"

MFX_CODEC_MPEG2 == "MPG2"

MFX_CODEC_VP8 == "VP8 "

MFX_CODEC_VP9 == "VP9 "

MFX_CODEC_JPEG == "JPEG"

\* ------------------------------------------------------------------------
\* Plugin identifier constants (16 bytes each, declaration order).
\* plugin_utils.cpp only names them; their byte values are declared in the
\* plug-in headers, outside the sources modelled here.  The properties below
\* use the values only through the names.
\* ------------------------------------------------------------------------

MSDK_PLUGINGUID_NULL == [i \in 1..GuidSize |-> 0]

MFX_PLUGINID_HEVCD_SW ==
    <<21, 221, 147, 104, 37, 173, 71, 94, 163, 78, 53, 243, 245, 66, 23, 166>>

MFX_PLUGINID_HEVCD_HW ==
    <<51, 166, 28, 11, 76, 39, 69, 76, 168, 216, 93, 222, 117, 124, 111, 142>>

MFX_PLUGINID_HEVCE_SW ==
    <<47, 202, 153, 116, 159, 219, 73, 174, 177, 33, 165, 182, 62, 245, 104, 247>>

MFX_PLUGINID_HEVCE_GACC ==
    <<229, 64, 10, 6, 199, 77, 65, 245, 177, 45, 67, 11, 186, 162, 61, 11>>

MFX_PLUGINID_HEVCE_HW ==
    <<111, 173, 199, 145, 160, 194, 235, 71, 154, 182, 220, 213, 234, 157, 163, 71>>

MFX_PLUGINID_VP8D_HW ==
    <<246, 34, 57, 77, 141, 135, 69, 47, 135, 140, 81, 242, 252, 155, 65, 49>>

MFX_PLUGINID_VP8E_HW ==
    <<191, 252, 81, 140, 222, 19, 77, 249, 138, 150, 244, 207, 129, 108, 15, 172>>

MFX_PLUGINID_VP9D_HW ==
    <<169, 34, 57, 77, 141, 135, 69, 47, 135, 140, 81, 242, 252, 155, 65, 49>>

MFX_PLUGINID_VP9E_HW ==
    <<206, 68, 239, 111, 26, 109, 34, 70, 180, 18, 187, 56, 214, 228, 81, 130>>

MFX_PLUGINID_CAMERA_HW ==
    <<84, 84, 38, 22, 36, 51, 65, 230, 147, 174, 137, 153, 66, 206, 115, 85>>

MFX_PLUGINID_CAPTURE_HW ==
    <<34, 214, 44, 7, 230, 114, 64, 143, 187, 76, 194, 14, 215, 160, 83, 228>>

MFX_PLUGINID_ITELECINE_HW ==
    <<231, 68, 117, 58, 205, 116, 64, 46, 137, 162, 238, 6, 53, 73, 97, 121>>

MFX_PLUGINID_H264LA_HW ==
    <<88, 143, 16, 22, 121, 109, 76, 26, 154, 11, 115, 193, 2, 74, 227, 128>>

MFX_PLUGINID_AACD ==
    <<233, 52, 103, 37, 172, 47, 76, 147, 170, 88, 92, 17, 199, 8, 124, 244>>

MFX_PLUGINID_AACE ==
    <<178, 162, 160, 90, 78, 172, 70, 191, 169, 222, 126, 128, 201, 141, 46, 24>>

MFX_PLUGINID_HEVCE_FEI_HW ==
    <<135, 224, 232, 3, 7, 55, 82, 64, 133, 45, 165, 170, 184, 115, 49, 134>>

MFX_PLUGINID_HEVC_FEI_ENCODE ==
    <<84, 24, 167, 6, 102, 249, 77, 92, 180, 247, 177, 202, 238, 134, 51, 155>>

\* ------------------------------------------------------------------------
\* Characters
\* ------------------------------------------------------------------------

DecDigits == <<"0", "1", "2", "3", "4", "5", "6", "7", "8", "9">>

LowerHex == <<"a", "b", "c", "d", "e", "f">>

UpperHex == <<"A", "B", "C", "D", "E", "F">>

\* std::isspace in the "C" locale
IsSpace(c) == c \in {" ", "\t", "\n", "\r"}

\* only the lower-case letters are taken as digits
DigitValue_LowerOnly(c) ==
    IF \E k \in 1..10 : DecDigits[k] = c
      THEN (CHOOSE k \in 1..10 : DecDigits[k] = c) - 1
    ELSE IF \E k \in 1..6 : LowerHex[k] = c
      THEN (CHOOSE k \in 1..6 : LowerHex[k] = c) + 9
    ELSE -1

\* value of a character as a base-16 digit, -1 when it is not one
DigitValue(c) ==
    IF \E k \in 1..10 : DecDigits[k] = c
      THEN (CHOOSE k \in 1..10 : DecDigits[k] = c) - 1
    ELSE IF \E k \in 1..6 : LowerHex[k] = c
      THEN (CHOOSE k \in 1..6 : LowerHex[k] = c) + 9
    ELSE IF \E k \in 1..6 : UpperHex[k] = c
      THEN (CHOOSE k \in 1..6 : UpperHex[k] = c) + 9
    ELSE -1

\* s.substr(pos, n): n characters from 0-based offset pos, cut at the end
substr(s, pos, n) ==
    SubSeq(s, pos + 1, IF pos + n > Len(s) THEN Len(s) ELSE pos + n)

\* ------------------------------------------------------------------------
\* ss << std::hex << field; ss >> xx;   (unsigned int xx = 0)
\* ------------------------------------------------------------------------

\* the input sentry of operator>> skips leading white space (skipws is set)
RECURSIVE SkipSpace(_)
SkipSpace(s) ==
    IF s # <<>> /\ IsSpace(Head(s)) THEN SkipSpace(Tail(s)) ELSE s

\* accumulate the leading base-16 digits of s; digits counts them
RECURSIVE AccumulateDigits(_, _, _)
AccumulateDigits(s, acc, n) ==
    IF s # <<>> /\ DigitValue(Head(s)) >= 0
      THEN AccumulateDigits(Tail(s), acc * 16 + DigitValue(Head(s)), n + 1)
      ELSE [value |-> acc, digits |-> n]

\* a stricter parser: a field with any non-digit character yields 0
ExtractHex_WholeField(field) ==
    IF \A k \in 1..Len(field) : DigitValue(field[k]) >= 0
      THEN AccumulateDigits(field, 0, 0).value % Pow2(ByteWidth)
      ELSE 0

\* (mfxU8)xx, for the xx left by extracting from a stream that holds field
\* with the basefield set to hex: white space is skipped, one sign and a
\* 0x/0X prefix are accepted, then the longest run of hex digits is converted
\* and the rest of the field is left unread.  With no digit the extraction
\* fails and xx is 0.  A '-' negates in unsigned int, i.e. modulo 2^32; the
\* cast keeps the low 8 bits, so the byte is the negation modulo 2^8.  (A
\* two-character field cannot overflow an unsigned int.)
ExtractHex(field) ==
    LET t        == SkipSpace(field)
        hasSign  == t # <<>> /\ Head(t) \in {"+", "-"}
        negative == t # <<>> /\ Head(t) = "-"
        u        == IF hasSign THEN Tail(t) ELSE t
        prefixed == Len(u) >= 2 /\ u[1] = "0" /\ u[2] \in {"x", "X"}
        v        == IF prefixed THEN SubSeq(u, 3, Len(u)) ELSE u
        r        == AccumulateDigits(v, 0, 0)
        low      == r.value % Pow2(ByteWidth)
    IN  IF r.digits = 0 THEN 0
        ELSE IF negative THEN (Pow2(ByteWidth) - low) % Pow2(ByteWidth)
        ELSE low

\* ------------------------------------------------------------------------
\* AreGuidsEqual
\* ------------------------------------------------------------------------

RECURSIVE AreGuidsEqualFrom(_, _, _, _)
AreGuidsEqualFrom(guid1, guid2, i, n) ==
    IF i # n
      THEN IF guid1[i + 1] # guid2[i + 1]
             THEN FALSE
             ELSE AreGuidsEqualFrom(guid1, guid2, i + 1, n)
      ELSE TRUE

\* the loop stops one byte early
AreGuidsEqual_OffByOne(guid1, guid2) ==
    AreGuidsEqualFrom(guid1, guid2, 0, GuidSize - 1)

AreGuidsEqual(guid1, guid2) ==
    AreGuidsEqualFrom(guid1, guid2, 0, GuidSize)

\* ------------------------------------------------------------------------
\* ConvertStringToGuid
\* ------------------------------------------------------------------------

\* the table with the values of hevcd_sw and hevcd_hw exchanged
uid_Swapped ==
    << [key |-> <<"h","e","v","c","d","_","s","w">>, value |-> MFX_PLUGINID_HEVCD_HW],
       [key |-> <<"h","e","v","c","d","_","h","w">>, value |-> MFX_PLUGINID_HEVCD_SW],
       [key |-> <<"h","e","v","c","e","_","s","w">>, value |-> MFX_PLUGINID_HEVCE_SW],
       [key |-> <<"h","e","v","c","e","_","g","a","c","c">>, value |-> MFX_PLUGINID_HEVCE_GACC],
       [key |-> <<"h","e","v","c","e","_","h","w">>, value |-> MFX_PLUGINID_HEVCE_HW],
       [key |-> <<"v","p","8","d","_","h","w">>, value |-> MFX_PLUGINID_VP8D_HW],
       [key |-> <<"v","p","8","e","_","h","w">>, value |-> MFX_PLUGINID_VP8E_HW],
       [key |-> <<"v","p","9","d","_","h","w">>, value |-> MFX_PLUGINID_VP9D_HW],
       [key |-> <<"v","p","9","e","_","h","w">>, value |-> MFX_PLUGINID_VP9E_HW],
       [key |-> <<"c","a","m","e","r","a","_","h","w">>, value |-> MFX_PLUGINID_CAMERA_HW],
       [key |-> <<"c","a","p","t","u","r","e","_","h","w">>, value |-> MFX_PLUGINID_CAPTURE_HW],
       [key |-> <<"p","t","i","r","_","h","w">>, value |-> MFX_PLUGINID_ITELECINE_HW],
       [key |-> <<"h","2","6","4","_","l","a","_","h","w">>, value |-> MFX_PLUGINID_H264LA_HW],
       [key |-> <<"a","a","c","d">>, value |-> MFX_PLUGINID_AACD],
       [key |-> <<"a","a","c","e">>, value |-> MFX_PLUGINID_AACE],
       [key |-> <<"h","e","v","c","e","_","f","e","i","_","h","w">>, value |-> MFX_PLUGINID_HEVCE_FEI_HW] >>

\* std::map<msdk_string, mfxPluginUID> uid{...}: the symbolic GUID values
uid ==
    << [key |-> <<"h","e","v","c","d","_","s","w">>, value |-> MFX_PLUGINID_HEVCD_SW],
       [key |-> <<"h","e","v","c","d","_","h","w">>, value |-> MFX_PLUGINID_HEVCD_HW],
       [key |-> <<"h","e","v","c","e","_","s","w">>, value |-> MFX_PLUGINID_HEVCE_SW],
       [key |-> <<"h","e","v","c","e","_","g","a","c","c">>, value |-> MFX_PLUGINID_HEVCE_GACC],
       [key |-> <<"h","e","v","c","e","_","h","w">>, value |-> MFX_PLUGINID_HEVCE_HW],
       [key |-> <<"v","p","8","d","_","h","w">>, value |-> MFX_PLUGINID_VP8D_HW],
       [key |-> <<"v","p","8","e","_","h","w">>, value |-> MFX_PLUGINID_VP8E_HW],
       [key |-> <<"v","p","9","d","_","h","w">>, value |-> MFX_PLUGINID_VP9D_HW],
       [key |-> <<"v","p","9","e","_","h","w">>, value |-> MFX_PLUGINID_VP9E_HW],
       [key |-> <<"c","a","m","e","r","a","_","h","w">>, value |-> MFX_PLUGINID_CAMERA_HW],
       [key |-> <<"c","a","p","t","u","r","e","_","h","w">>, value |-> MFX_PLUGINID_CAPTURE_HW],
       [key |-> <<"p","t","i","r","_","h","w">>, value |-> MFX_PLUGINID_ITELECINE_HW],
       [key |-> <<"h","2","6","4","_","l","a","_","h","w">>, value |-> MFX_PLUGINID_H264LA_HW],
       [key |-> <<"a","a","c","d">>, value |-> MFX_PLUGINID_AACD],
       [key |-> <<"a","a","c","e">>, value |-> MFX_PLUGINID_AACE],
       [key |-> <<"h","e","v","c","e","_","f","e","i","_","h","w">>, value |-> MFX_PLUGINID_HEVCE_FEI_HW] >>

\* uid.find(strGuid): the index of the entry whose key is strGuid,
\* 0 for uid.end()
find(m, strGuid) ==
    IF \E k \in 1..Len(m) : m[k].key = strGuid
      THEN CHOOSE k \in 1..Len(m) : m[k].key = strGuid
      ELSE 0

\* the decoded byte is stored from the far end of Data
DecodeLoop_Reversed(strGuid, mfxGuid, i) ==
    [k \in 1..GuidSize |->
        ExtractHex(substr(strGuid, (GuidSize - k) * 2, 2))]

\* for (size_t i = 0; i < 16; i++) { ... mfxGuid.Data[i] = (mfxU8)xx; }
RECURSIVE DecodeLoop(_, _, _)
DecodeLoop(strGuid, mfxGuid, i) ==
    IF i < GuidSize
      THEN LET xx == ExtractHex(substr(strGuid, i * 2, 2))
           IN  DecodeLoop(strGuid, [mfxGuid EXCEPT ![i + 1] = xx], i + 1)
      ELSE mfxGuid

\* the length test reads size() < 32 instead of size() != 32
ConvertStringToGuid_LengthBelow(strGuid) ==
    LET item == find(uid, strGuid)
    IN  IF item # 0
          THEN [sts |-> MFX_ERR_NONE, mfxGuid |-> uid[item].value]
        ELSE IF Len(strGuid) < GuidTextLen
          THEN [sts |-> MFX_ERR_UNKNOWN, mfxGuid |-> MSDK_PLUGINGUID_NULL]
        ELSE [sts |-> MFX_ERR_NONE,
              mfxGuid |-> DecodeLoop(strGuid, MSDK_PLUGINGUID_NULL, 0)]

\* returns the status and the value left in the output parameter mfxGuid
ConvertStringToGuid(strGuid) ==
    LET item   == find(uid, strGuid)
        \* Check if symbolic GUID value
        lookup == IF item = 0
                    THEN [sts |-> MFX_ERR_UNKNOWN, mfxGuid |-> MSDK_PLUGINGUID_NULL]
                    ELSE [sts |-> MFX_ERR_NONE, mfxGuid |-> uid[item].value]
    IN  \* Check if plain GUID value
        IF lookup.sts # MFX_ERR_NONE
          THEN IF Len(strGuid) # GuidTextLen
                 THEN [lookup EXCEPT !.sts = MFX_ERR_UNKNOWN]
                 ELSE [sts |-> MFX_ERR_NONE,
                       mfxGuid |-> DecodeLoop(strGuid, lookup.mfxGuid, 0)]
          ELSE lookup

\* ------------------------------------------------------------------------
\* State: the build, the function called, its arguments and its results
\* ------------------------------------------------------------------------

VARIABLES
    platform,       \* the target the sources are compiled for
    fn,             \* the function under call
    pc,             \* "call" before the call, "ret" after it returned
    strGuid,        \* argument text (ConvertStringToGuid, ParsePlugin*)
    guid1, guid2,   \* arguments of AreGuidsEqual
    impl, type, uCodecid,   \* arguments of msdkGetPluginUID
    sts,            \* status returned by ConvertStringToGuid
    mfxGuid,        \* output parameter of ConvertStringToGuid
    equal,          \* result of AreGuidsEqual
    pluginUID,      \* result of msdkGetPluginUID
    pluginParams,   \* result of ParsePluginGuid / ParsePluginPath
    \* main of hello-sharing-ocl-export (fn = "main"; pc is the position in
    \* main and sts its status variable)
    isDraining,
    isStillGoing,
    framenum,
    stsSurf,        \* status of Export
    bs,             \* bitstream argument of the last DecodeFrameAsync call
    decSurfaceOut,  \* the decode output surface: "NULL", "held", "released"
    exportedSurface,\* the exported surface: "NULL", "held", "released"
    calls,          \* DecodeFrameAsync calls made so far
    events,         \* surface calls made since the last DecodeFrameAsync
    syncSts,        \* what the last Synchronize returned
    frameBefore     \* framenum at the last DecodeFrameAsync call

loopVars == <<isDraining, isStillGoing, framenum, stsSurf, bs, decSurfaceOut,
              exportedSurface, calls, events, syncSts, frameBefore>>

vars == <<platform, fn, pc, strGuid, guid1, guid2, impl, type, uCodecid,
          sts, mfxGuid, equal, pluginUID, pluginParams, loopVars>>

\* defined(ANDROID)
ANDROID == platform = "android"

\* defined(_WIN32) || defined(_WIN64)
WIN32 == platform = "windows"

\* ------------------------------------------------------------------------
\* msdkGetPluginUID
\* ------------------------------------------------------------------------

\* the switch of the impl == MFX_IMPL_SOFTWARE branch
SoftwareUID(t, codec) ==
    CASE t = MSDK_VDECODE /\ codec = MFX_CODEC_HEVC -> MFX_PLUGINID_HEVCD_SW
      [] t = MSDK_VENCODE /\ codec = MFX_CODEC_HEVC -> MFX_PLUGINID_HEVCE_SW
      [] OTHER -> MSDK_PLUGINGUID_NULL

\* the hardware encoder switch also answers VP9
HardwareUID_Vp9Encode(t, codec, android, win) ==
    CASE t = MSDK_VDECODE /\ ~android /\ codec = MFX_CODEC_HEVC -> MFX_PLUGINID_HEVCD_HW
      [] t = MSDK_VDECODE /\ ~android /\ codec = MFX_CODEC_VP8 -> MFX_PLUGINID_VP8D_HW
      [] t = MSDK_VDECODE /\ ~android /\ codec = MFX_CODEC_VP9 -> MFX_PLUGINID_VP9D_HW
      [] t = MSDK_VENCODE /\ codec = MFX_CODEC_HEVC -> MFX_PLUGINID_HEVCE_HW
      [] t = MSDK_VENCODE /\ codec = MFX_CODEC_VP8 -> MFX_PLUGINID_VP8E_HW
      [] t = MSDK_VENCODE /\ codec = MFX_CODEC_VP9 -> MFX_PLUGINID_VP9E_HW
      [] t = (MSDK_VENCODE \cup MSDK_FEI) /\ ~win /\ codec = MFX_CODEC_HEVC
           -> MFX_PLUGINID_HEVC_FEI_ENCODE
      [] t = MSDK_VENC /\ codec = MFX_CODEC_HEVC -> MFX_PLUGINID_HEVCE_FEI_HW
      [] OTHER -> MSDK_PLUGINGUID_NULL

\* the ENC case returns the identifier of the Encode+FEI case
HardwareUID_EncAliased(t, codec, android, win) ==
    CASE t = MSDK_VDECODE /\ ~android /\ codec = MFX_CODEC_HEVC -> MFX_PLUGINID_HEVCD_HW
      [] t = MSDK_VDECODE /\ ~android /\ codec = MFX_CODEC_VP8 -> MFX_PLUGINID_VP8D_HW
      [] t = MSDK_VDECODE /\ ~android /\ codec = MFX_CODEC_VP9 -> MFX_PLUGINID_VP9D_HW
      [] t = MSDK_VENCODE /\ codec = MFX_CODEC_HEVC -> MFX_PLUGINID_HEVCE_HW
      [] t = MSDK_VENCODE /\ codec = MFX_CODEC_VP8 -> MFX_PLUGINID_VP8E_HW
      [] t = (MSDK_VENCODE \cup MSDK_FEI) /\ ~win /\ codec = MFX_CODEC_HEVC
           -> MFX_PLUGINID_HEVC_FEI_ENCODE
      [] t = MSDK_VENC /\ codec = MFX_CODEC_HEVC -> MFX_PLUGINID_HEVC_FEI_ENCODE
      [] OTHER -> MSDK_PLUGINGUID_NULL

\* the switch of the else branch; the MSDK_VDECODE case is compiled only
\* when ANDROID is not defined, the (MSDK_VENCODE | MSDK_FEI) case only when
\* neither _WIN32 nor _WIN64 is
HardwareUID(t, codec, android, win) ==
    CASE t = MSDK_VDECODE /\ ~android /\ codec = MFX_CODEC_HEVC -> MFX_PLUGINID_HEVCD_HW
      [] t = MSDK_VDECODE /\ ~android /\ codec = MFX_CODEC_VP8 -> MFX_PLUGINID_VP8D_HW
      [] t = MSDK_VDECODE /\ ~android /\ codec = MFX_CODEC_VP9 -> MFX_PLUGINID_VP9D_HW
      [] t = MSDK_VENCODE /\ codec = MFX_CODEC_HEVC -> MFX_PLUGINID_HEVCE_HW
      [] t = MSDK_VENCODE /\ codec = MFX_CODEC_VP8 -> MFX_PLUGINID_VP8E_HW
      [] t = (MSDK_VENCODE \cup MSDK_FEI) /\ ~win /\ codec = MFX_CODEC_HEVC
           -> MFX_PLUGINID_HEVC_FEI_ENCODE
      [] t = MSDK_VENC /\ codec = MFX_CODEC_HEVC -> MFX_PLUGINID_HEVCE_FEI_HW
      [] OTHER -> MSDK_PLUGINGUID_NULL

\* a software miss falls through to the hardware switch
msdkGetPluginUID_FallThrough(i, t, codec) ==
    IF i = MFX_IMPL_SOFTWARE /\ SoftwareUID(t, codec) # MSDK_PLUGINGUID_NULL
      THEN SoftwareUID(t, codec)
      ELSE HardwareUID(t, codec, ANDROID, WIN32)

\* the platform conditions are dropped: every case is compiled in
msdkGetPluginUID_AllCases(i, t, codec) ==
    IF i = MFX_IMPL_SOFTWARE
      THEN SoftwareUID(t, codec)
      ELSE HardwareUID(t, codec, FALSE, FALSE)

\* the test looks at the base type of impl only, the VIA flags masked off
msdkGetPluginUID_BaseType(i, t, codec) ==
    IF i % 256 = MFX_IMPL_SOFTWARE
      THEN SoftwareUID(t, codec)
      ELSE HardwareUID(t, codec, ANDROID, WIN32)

msdkGetPluginUID(i, t, codec) ==
    IF i = MFX_IMPL_SOFTWARE
      THEN SoftwareUID(t, codec)
      ELSE HardwareUID(t, codec, ANDROID, WIN32)

\* ------------------------------------------------------------------------
\* ParsePluginGuid, ParsePluginPath
\* ------------------------------------------------------------------------

\* sPluginParams pluginParams;  (default construction)
sPluginParams ==
    [pluginGuid    |-> MSDK_PLUGINGUID_NULL,
     strPluginPath |-> <<>>,
     type          |-> PLUGINLOAD_TYPE_UNSET]

\* the tag is set whatever the status
ParsePluginGuid_AlwaysTagged(strPluginGuid) ==
    LET r == ConvertStringToGuid(strPluginGuid)
    IN  [sPluginParams EXCEPT !.type = MFX_PLUGINLOAD_TYPE_GUID,
                              !.pluginGuid = r.mfxGuid]

ParsePluginGuid(strPluginGuid) ==
    LET r == ConvertStringToGuid(strPluginGuid)
    IN  IF r.sts = MFX_ERR_NONE
          THEN [sPluginParams EXCEPT !.type = MFX_PLUGINLOAD_TYPE_GUID,
                                     !.pluginGuid = r.mfxGuid]
          ELSE sPluginParams

ParsePluginPath(strPluginGuid) ==
    [sPluginParams EXCEPT
        !.strPluginPath = [k \in 1..Len(strPluginGuid) |-> strPluginGuid[k]],
        !.type = MFX_PLUGINLOAD_TYPE_FILE]

\* ------------------------------------------------------------------------
\* Inputs
\* ------------------------------------------------------------------------

\* longest of the short texts tried
MaxShortLen == 2

\* texts of length 32-d and 32+d are tried for d in 1..MaxLenDelta
MaxLenDelta == 1

Platforms == {"linux", "android", "windows"}

Fns == {"AreGuidsEqual", "ConvertStringToGuid", "msdkGetPluginUID",
        "ParsePluginGuid", "ParsePluginPath"}

\* the value of a result that no call has produced yet
NoValue == "-"

LowerLetters == <<"a","b","c","d","e","f","g","h","i","j","k","l","m",
                  "n","o","p","q","r","s","t","u","v","w","x","y","z">>

UpperLetters == <<"A","B","C","D","E","F","G","H","I","J","K","L","M",
                  "N","O","P","Q","R","S","T","U","V","W","X","Y","Z">>

ToUpper(c) ==
    IF \E k \in 1..26 : LowerLetters[k] = c
      THEN UpperLetters[CHOOSE k \in 1..26 : LowerLetters[k] = c]
      ELSE c

TableNames == {uid[k].key : k \in 1..Len(uid)}

\* names in another letter case: all upper case, or only the first letter
CaseVariants ==
    {[k \in 1..Len(n) |-> ToUpper(n[k])] : n \in TableNames}
    \cup {[k \in 1..Len(n) |-> IF k = 1 THEN ToUpper(n[k]) ELSE n[k]] : n \in TableNames}

\* names cut by one character or extended by one
NearNames ==
    {SubSeq(n, 1, Len(n) - 1) : n \in TableNames}
    \cup {Append(n, c) : n \in TableNames, c \in {"x", " ", "0"}}

ShortAlphabet == {"a", "F", "g", "0", " "}

RECURSIVE TextsOfLen(_)
TextsOfLen(n) ==
    IF n = 0 THEN {<<>>}
    ELSE {Append(t, c) : t \in TextsOfLen(n - 1), c \in ShortAlphabet}

ShortTexts == UNION {TextsOfLen(n) : n \in 0..MaxShortLen}

\* two-character fields: hex pairs in both letter cases, pairs with a
\* non-hex character in either place, white space, signs and 0x prefixes
HexPairs ==
    { <<"0","0">>, <<"0","a">>, <<"a","0">>, <<"f","f">>, <<"F","F">>,
      <<"1","f">>, <<"F","1">>, <<"9","c">>, <<"A","a">>, <<"7","B">>,
      <<"1","0">>, <<"0","1">>, <<"d","E">> }

OtherPairs ==
    { <<"z","z">>, <<"1","g">>, <<"g","1">>, <<"f","G">>, <<"_","A">>,
      <<"0","x">>, <<"0","X">>, <<"x","0">>,
      <<" ","1">>, <<"1"," ">>, <<"\t","b">>, <<" "," ">>,
      <<"-","1">>, <<"+","1">>, <<"-","a">>, <<"-","0">>, <<"-","g">>,
      <<"+","-">>, <<"-"," ">> }

Pairs == HexPairs \cup OtherPairs

FillerPairs == { <<"0","0">>, <<"a","5">>, <<"F","F">>, <<"z","z">> }

\* the 32-character text with pair q at byte position k and p elsewhere
Text32(p, q, k) ==
    [j \in 1..GuidTextLen |->
        IF (j + 1) \div 2 = k + 1
          THEN q[2 - (j % 2)]
          ELSE p[2 - (j % 2)]]

Texts32 == {Text32(p, q, k) : p \in FillerPairs, q \in Pairs, k \in 0..(GuidSize - 1)}

\* texts one or more characters short of, or beyond, 32
OffLengthTexts ==
    UNION { {SubSeq(Text32(p, p, 0), 1, GuidTextLen - d),
             Text32(p, p, 0) \o SubSeq(Text32(p, p, 0), 1, d)} :
            p \in Pairs, d \in 1..MaxLenDelta }

HexDigitsLower == DecDigits \o LowerHex

HexDigitsUpper == DecDigits \o UpperHex

\* the 32-character text of an identifier: two digits per byte, the high
\* nibble first, bytes in declaration order
HexEncode(g, digits) ==
    [j \in 1..(2 * Len(g)) |->
        IF j % 2 = 1
          THEN digits[(g[(j + 1) \div 2] \div 16) + 1]
          ELSE digits[(g[j \div 2] % 16) + 1]]

KnownGuids ==
    {uid[k].value : k \in 1..Len(uid)}
    \cup {MSDK_PLUGINGUID_NULL, MFX_PLUGINID_HEVC_FEI_ENCODE,
          [k \in 1..GuidSize |-> 255], [k \in 1..GuidSize |-> 16 * (k - 1) + (16 - k)]}

\* identifiers that between them hold every byte value
SweepGuids == {[k \in 1..GuidSize |-> (b + 17 * k) % Pow2(ByteWidth)] : b \in 0..255}

EncodedGuids == KnownGuids \cup SweepGuids

GuidTexts ==
    {HexEncode(g, HexDigitsLower) : g \in EncodedGuids}
    \cup {HexEncode(g, HexDigitsUpper) : g \in EncodedGuids}

Texts ==
    TableNames \cup CaseVariants \cup NearNames \cup ShortTexts
    \cup Texts32 \cup OffLengthTexts \cup GuidTexts

\* identifiers that differ from g in exactly one byte
OneByteOff(g) ==
    {[g EXCEPT ![k] = (@ + d) % Pow2(ByteWidth)] : k \in 1..GuidSize, d \in {1, 128}}

Impls ==
    {MFX_IMPL_AUTO, MFX_IMPL_SOFTWARE, MFX_IMPL_HARDWARE, MFX_IMPL_AUTO_ANY,
     MFX_IMPL_HARDWARE_ANY, MFX_IMPL_SOFTWARE + MFX_IMPL_VIA_D3D11,
     MFX_IMPL_HARDWARE + MFX_IMPL_VIA_D3D11}

Types ==
    {MSDK_VDECODE, MSDK_VENCODE, MSDK_VPP, MSDK_VENC,
     MSDK_VENCODE \cup MSDK_FEI, MSDK_VENC \cup MSDK_FEI,
     MSDK_VDECODE \cup MSDK_VENCODE, MSDK_VDECODE \cup MSDK_FEI}

Codecs ==
    {MFX_CODEC_AVC, MFX_CODEC_HEVC, MFX_CODEC_MPEG2, MFX_CODEC_VP8,
     MFX_CODEC_VP9, MFX_CODEC_JPEG}

\* ------------------------------------------------------------------------
\* The calls
\* ------------------------------------------------------------------------

\* the locals of main as declared, before the loop
LoopStart ==
    /\ isDraining = FALSE
    /\ isStillGoing = TRUE
    /\ framenum = 0
    /\ stsSurf = NoValue
    /\ bs = NoValue
    /\ decSurfaceOut = "NULL"
    /\ exportedSurface = "NULL"
    /\ calls = 0
    /\ events = <<>>
    /\ syncSts = NoValue
    /\ frameBefore = 0

Init ==
    /\ platform \in Platforms
    /\ fn \in Fns
    /\ pc = "call"
    /\ IF fn \in {"ConvertStringToGuid", "ParsePluginGuid", "ParsePluginPath"}
         THEN strGuid \in Texts
         ELSE strGuid = <<>>
    /\ IF fn = "AreGuidsEqual"
         THEN /\ guid1 \in KnownGuids
              /\ guid2 \in KnownGuids \cup OneByteOff(guid1)
         ELSE guid1 = MSDK_PLUGINGUID_NULL /\ guid2 = MSDK_PLUGINGUID_NULL
    /\ IF fn = "msdkGetPluginUID"
         THEN impl \in Impls /\ type \in Types /\ uCodecid \in Codecs
         ELSE impl = MFX_IMPL_AUTO /\ type = {} /\ uCodecid = NoValue
    \* the caller's mfxPluginUID holds anything before the call
    /\ IF fn = "ConvertStringToGuid"
         THEN mfxGuid \in {MSDK_PLUGINGUID_NULL, [k \in 1..GuidSize |-> 170]}
         ELSE mfxGuid = MSDK_PLUGINGUID_NULL
    /\ sts = NoValue
    /\ equal = NoValue
    /\ pluginUID = NoValue
    /\ pluginParams = NoValue
    /\ LoopStart

CallAreGuidsEqual ==
    /\ pc = "call" /\ fn = "AreGuidsEqual"
    /\ equal' = AreGuidsEqual(guid1, guid2)
    /\ pc' = "ret"
    /\ UNCHANGED <<platform, fn, strGuid, guid1, guid2, impl, type, uCodecid,
                   sts, mfxGuid, pluginUID, pluginParams, loopVars>>

CallConvertStringToGuid ==
    /\ pc = "call" /\ fn = "ConvertStringToGuid"
    /\ LET r == ConvertStringToGuid(strGuid)
       IN  sts' = r.sts /\ mfxGuid' = r.mfxGuid
    /\ pc' = "ret"
    /\ UNCHANGED <<platform, fn, strGuid, guid1, guid2, impl, type, uCodecid,
                   equal, pluginUID, pluginParams, loopVars>>

CallMsdkGetPluginUID ==
    /\ pc = "call" /\ fn = "msdkGetPluginUID"
    /\ pluginUID' = msdkGetPluginUID(impl, type, uCodecid)
    /\ pc' = "ret"
    /\ UNCHANGED <<platform, fn, strGuid, guid1, guid2, impl, type, uCodecid,
                   sts, mfxGuid, equal, pluginParams, loopVars>>

CallParsePluginGuid ==
    /\ pc = "call" /\ fn = "ParsePluginGuid"
    /\ pluginParams' = ParsePluginGuid(strGuid)
    /\ pc' = "ret"
    /\ UNCHANGED <<platform, fn, strGuid, guid1, guid2, impl, type, uCodecid,
                   sts, mfxGuid, equal, pluginUID, loopVars>>

CallParsePluginPath ==
    /\ pc = "call" /\ fn = "ParsePluginPath"
    /\ pluginParams' = ParsePluginPath(strGuid)
    /\ pc' = "ret"
    /\ UNCHANGED <<platform, fn, strGuid, guid1, guid2, impl, type, uCodecid,
                   sts, mfxGuid, equal, pluginUID, loopVars>>

Next ==
    \/ CallAreGuidsEqual
    \/ CallConvertStringToGuid
    \/ CallMsdkGetPluginUID
    \/ CallParsePluginGuid
    \/ CallParsePluginPath

Spec == Init /\ [][Next]_vars

TypeOK ==
    /\ platform \in Platforms
    /\ fn \in Fns
    /\ pc \in {"call", "ret"}
    /\ Len(mfxGuid) = GuidSize
    /\ \A k \in 1..GuidSize : mfxGuid[k] \in 0..(Pow2(ByteWidth) - 1)

\* ------------------------------------------------------------------------
\* Properties of ConvertStringToGuid
\* ------------------------------------------------------------------------

Converted == pc = "ret" /\ fn = "ConvertStringToGuid"

\* the documented association of symbolic names and identifiers
DocumentedNames ==
    { << <<"h","e","v","c","d","_","s","w">>, MFX_PLUGINID_HEVCD_SW >>,
      << <<"h","e","v","c","d","_","h","w">>, MFX_PLUGINID_HEVCD_HW >>,
      << <<"h","e","v","c","e","_","s","w">>, MFX_PLUGINID_HEVCE_SW >>,
      << <<"h","e","v","c","e","_","g","a","c","c">>, MFX_PLUGINID_HEVCE_GACC >>,
      << <<"h","e","v","c","e","_","h","w">>, MFX_PLUGINID_HEVCE_HW >>,
      << <<"v","p","8","d","_","h","w">>, MFX_PLUGINID_VP8D_HW >>,
      << <<"v","p","8","e","_","h","w">>, MFX_PLUGINID_VP8E_HW >>,
      << <<"v","p","9","d","_","h","w">>, MFX_PLUGINID_VP9D_HW >>,
      << <<"v","p","9","e","_","h","w">>, MFX_PLUGINID_VP9E_HW >>,
      << <<"c","a","m","e","r","a","_","h","w">>, MFX_PLUGINID_CAMERA_HW >>,
      << <<"c","a","p","t","u","r","e","_","h","w">>, MFX_PLUGINID_CAPTURE_HW >>,
      << <<"p","t","i","r","_","h","w">>, MFX_PLUGINID_ITELECINE_HW >>,
      << <<"h","2","6","4","_","l","a","_","h","w">>, MFX_PLUGINID_H264LA_HW >>,
      << <<"a","a","c","d">>, MFX_PLUGINID_AACD >>,
      << <<"a","a","c","e">>, MFX_PLUGINID_AACE >>,
      << <<"h","e","v","c","e","_","f","e","i","_","h","w">>, MFX_PLUGINID_HEVCE_FEI_HW >> }

\* t and n are the same text up to letter case, and are not the same text
DiffersOnlyInCase(t, n) ==
    /\ t # n
    /\ Len(t) = Len(n)
    /\ \A k \in 1..Len(n) : ToUpper(t[k]) = ToUpper(n[k])

\* C1: each of the 16 symbolic names resolves to its documented identifier
\* with MFX_ERR_NONE; the match is exact and case-sensitive, so a text that
\* differs from a name only in letter case is not resolved by the table
\* (it is refused, none of them being 32 characters long).
C1_NamesResolve ==
    Converted =>
        /\ \A e \in DocumentedNames :
              strGuid = e[1] => sts = MFX_ERR_NONE /\ mfxGuid = e[2]
        /\ (\E e \in DocumentedNames : DiffersOnlyInCase(strGuid, e[1])) =>
              sts = MFX_ERR_UNKNOWN /\ mfxGuid = MSDK_PLUGINGUID_NULL

C1_Witness ==
    /\ Converted
    /\ strGuid = <<"h","e","v","c","d","_","h","w">>
    /\ sts = MFX_ERR_NONE
    /\ mfxGuid = MFX_PLUGINID_HEVCD_HW

IsHexDigit(c) ==
    \E v \in 1..16 : HexDigitsLower[v] = c \/ HexDigitsUpper[v] = c

\* the value of a hexadecimal digit, read off the digit strings
Nibble(c) ==
    (CHOOSE v \in 1..16 : HexDigitsLower[v] = c \/ HexDigitsUpper[v] = c) - 1

\* the two characters that byte i (0-based) of a 32-character text is made of
Hi(t, i) == t[2 * i + 1]

Lo(t, i) == t[2 * i + 2]

\* C2: a 32-character text of hexadecimal digits only (it is then no table
\* name) resolves with MFX_ERR_NONE to the identifier whose byte i is
\* 16*value(char 2i) + value(char 2i+1).
C2_HexDecodes ==
    (/\ Converted
     /\ Len(strGuid) = GuidTextLen
     /\ \A k \in 1..GuidTextLen : IsHexDigit(strGuid[k])) =>
        /\ strGuid \notin TableNames
        /\ sts = MFX_ERR_NONE
        /\ \A i \in 0..(GuidSize - 1) :
              mfxGuid[i + 1] = 16 * Nibble(Hi(strGuid, i)) + Nibble(Lo(strGuid, i))

C2_Witness ==
    /\ Converted
    /\ strGuid = Text32(<<"a","5">>, <<"7","B">>, 3)
    /\ sts = MFX_ERR_NONE
    /\ mfxGuid[4] = 123
    /\ mfxGuid[1] = 165
    /\ mfxGuid[GuidSize] = 165

\* C3: a text that is no symbolic name and is not 32 characters long (the
\* empty text included) yields MFX_ERR_UNKNOWN and the null identifier.
C3_Unrecognized ==
    (Converted /\ strGuid \notin TableNames /\ Len(strGuid) # GuidTextLen) =>
        sts = MFX_ERR_UNKNOWN /\ mfxGuid = MSDK_PLUGINGUID_NULL

C3_Witness ==
    /\ Converted
    /\ Len(strGuid) = GuidTextLen + 1
    /\ sts = MFX_ERR_UNKNOWN
    /\ mfxGuid = MSDK_PLUGINGUID_NULL

\* ------------------------------------------------------------------------
\* Properties of msdkGetPluginUID
\* ------------------------------------------------------------------------

Selected == pc = "ret" /\ fn = "msdkGetPluginUID"

\* the impl values of the Hardware class
HardwareImpls ==
    {MFX_IMPL_HARDWARE, MFX_IMPL_HARDWARE_ANY, MFX_IMPL_HARDWARE + MFX_IMPL_VIA_D3D11}

\* the identifier a decision table gives for (type, uCodecid): that of the
\* row with this role and codec, the null identifier when there is none
TableEntry(table) ==
    IF \E row \in table : row[1] = type /\ row[2] = uCodecid
      THEN (CHOOSE row \in table : row[1] = type /\ row[2] = uCodecid)[3]
      ELSE MSDK_PLUGINGUID_NULL

SoftwareDefaults ==
    { <<MSDK_VDECODE, MFX_CODEC_HEVC, MFX_PLUGINID_HEVCD_SW>>,
      <<MSDK_VENCODE, MFX_CODEC_HEVC, MFX_PLUGINID_HEVCE_SW>> }

HardwareDecodeDefaults ==
    { <<MSDK_VDECODE, MFX_CODEC_HEVC, MFX_PLUGINID_HEVCD_HW>>,
      <<MSDK_VDECODE, MFX_CODEC_VP8, MFX_PLUGINID_VP8D_HW>>,
      <<MSDK_VDECODE, MFX_CODEC_VP9, MFX_PLUGINID_VP9D_HW>> }

HardwareEncodeDefaults ==
    { <<MSDK_VENCODE, MFX_CODEC_HEVC, MFX_PLUGINID_HEVCE_HW>>,
      <<MSDK_VENCODE, MFX_CODEC_VP8, MFX_PLUGINID_VP8E_HW>> }

HardwareFeiDefaults ==
    { <<MSDK_VENCODE \cup MSDK_FEI, MFX_CODEC_HEVC, MFX_PLUGINID_HEVC_FEI_ENCODE>> }

HardwareEncDefaults ==
    { <<MSDK_VENC, MFX_CODEC_HEVC, MFX_PLUGINID_HEVCE_FEI_HW>> }

\* C4: with MFX_IMPL_SOFTWARE the result is the software HEVC decoder for
\* (Decode, HEVC), the software HEVC encoder for (Encode, HEVC) and the null
\* identifier for every other (role, codec).
C4_SoftwareTable ==
    (Selected /\ impl = MFX_IMPL_SOFTWARE) =>
        pluginUID = TableEntry(SoftwareDefaults)

C4_Witness ==
    /\ Selected
    /\ impl = MFX_IMPL_SOFTWARE
    /\ type = MSDK_VDECODE
    /\ uCodecid = MFX_CODEC_VP9
    /\ pluginUID = MSDK_PLUGINGUID_NULL

\* C5: with a hardware impl, on a platform that is neither Android nor
\* Windows, the result is exactly the table: Decode HEVC/VP8/VP9, Encode
\* HEVC/VP8, Encode+FEI HEVC, ENC HEVC, and the null identifier otherwise.
C5_HardwareTable ==
    (Selected /\ impl \in HardwareImpls /\ ~ANDROID /\ ~WIN32) =>
        pluginUID = TableEntry(HardwareDecodeDefaults \cup HardwareEncodeDefaults
                               \cup HardwareFeiDefaults \cup HardwareEncDefaults)

C5_Witness ==
    /\ Selected
    /\ impl = MFX_IMPL_HARDWARE
    /\ platform = "linux"
    /\ type = MSDK_VENCODE
    /\ uCodecid = MFX_CODEC_VP9
    /\ pluginUID = MSDK_PLUGINGUID_NULL

\* C6: the platform restricts the hardware results and nothing else: on
\* Android every hardware Decode result is null while (Encode, VP8) is still
\* the hardware VP8 encoder; on Windows hardware (Encode+FEI, HEVC) is null;
\* the software results and the hardware Encode and ENC results are given by
\* tables that do not depend on the platform.
C6_PlatformRestricts ==
    Selected =>
        /\ (ANDROID /\ impl \in HardwareImpls /\ type = MSDK_VDECODE) =>
              pluginUID = MSDK_PLUGINGUID_NULL
        /\ (impl \in HardwareImpls /\ type = MSDK_VENCODE /\ uCodecid = MFX_CODEC_VP8) =>
              pluginUID = MFX_PLUGINID_VP8E_HW
        /\ (WIN32 /\ impl \in HardwareImpls /\ type = MSDK_VENCODE \cup MSDK_FEI) =>
              pluginUID = MSDK_PLUGINGUID_NULL
        /\ impl = MFX_IMPL_SOFTWARE => pluginUID = TableEntry(SoftwareDefaults)
        /\ (impl \in HardwareImpls /\ type \in {MSDK_VENCODE, MSDK_VENC}) =>
              pluginUID = TableEntry(HardwareEncodeDefaults \cup HardwareEncDefaults)

C6_Witness ==
    /\ Selected
    /\ platform = "android"
    /\ impl = MFX_IMPL_HARDWARE
    /\ type = MSDK_VDECODE
    /\ uCodecid = MFX_CODEC_HEVC
    /\ pluginUID = MSDK_PLUGINGUID_NULL

\* ------------------------------------------------------------------------
\* Properties of AreGuidsEqual
\* ------------------------------------------------------------------------

Compared == pc = "ret" /\ fn = "AreGuidsEqual"

\* the positions at which two identifiers differ
DifferingBytes(a, b) == {k \in 1..GuidSize : a[k] # b[k]}

\* C7: AreGuidsEqual is true exactly when all 16 bytes match; it is
\* reflexive and symmetric, and false for identifiers that differ in exactly
\* one byte, wherever that byte is.
C7_Equals ==
    Compared =>
        /\ equal = (DifferingBytes(guid1, guid2) = {})
        /\ AreGuidsEqual(guid1, guid1) = TRUE
        /\ AreGuidsEqual(guid2, guid1) = equal
        /\ Cardinality(DifferingBytes(guid1, guid2)) = 1 => equal = FALSE

C7_Witness ==
    /\ Compared
    /\ DifferingBytes(guid1, guid2) = {GuidSize}
    /\ equal = FALSE

\* ------------------------------------------------------------------------
\* Round trip and lenient decoding
\* ------------------------------------------------------------------------

\* the texts of the identifiers, in lower-case and in upper-case digits
EncodedLower == [g \in EncodedGuids |-> HexEncode(g, HexDigitsLower)]

EncodedUpper == [g \in EncodedGuids |-> HexEncode(g, HexDigitsUpper)]

\* C8: the 32-character text of an identifier (two hex digits per byte, in
\* either letter case) resolves with MFX_ERR_NONE to an identifier that
\* AreGuidsEqual finds equal to the original.
C8_RoundTrip ==
    (Converted /\ Len(strGuid) = GuidTextLen) =>
        \A g \in EncodedGuids :
            strGuid \in {EncodedLower[g], EncodedUpper[g]} =>
                /\ sts = MFX_ERR_NONE
                /\ AreGuidsEqual(mfxGuid, g)
                /\ mfxGuid = g

C8_Witness ==
    /\ Converted
    /\ strGuid = HexEncode(MFX_PLUGINID_HEVCE_FEI_HW, HexDigitsUpper)
    /\ sts = MFX_ERR_NONE
    /\ AreGuidsEqual(mfxGuid, MFX_PLUGINID_HEVCE_FEI_HW)

\* C9 as stated: in a 32-character text every pair that holds a non-hex
\* character, in either place, decodes to 0, the other pairs decode
\* normally, and the status is MFX_ERR_NONE.
C9_AnyNonHexIsZero ==
    (Converted /\ Len(strGuid) = GuidTextLen) =>
        /\ sts = MFX_ERR_NONE
        /\ \A i \in 0..(GuidSize - 1) :
              mfxGuid[i + 1] =
                  IF IsHexDigit(Hi(strGuid, i)) /\ IsHexDigit(Lo(strGuid, i))
                    THEN 16 * Nibble(Hi(strGuid, i)) + Nibble(Lo(strGuid, i))
                    ELSE 0

\* a character that starts neither a number nor the white space before one
StartsNothing(c) == ~IsHexDigit(c) /\ ~IsSpace(c) /\ c \notin {"+", "-"}

\* C9 amended: in a 32-character text a pair of two hex digits decodes
\* normally; a pair whose first character is a hex digit and whose second is
\* not decodes to the value of the first digit alone ("1g" is 1, not 0); a
\* pair whose first character is white space or '+' decodes to the value of
\* its second character, and one whose first character is '-' to the
\* negation modulo 256 of that value ("-1" is 255), when the second is a hex
\* digit; every other pair decodes to 0; the status is MFX_ERR_NONE.
C9_LeadingDigitsDecode ==
    (Converted /\ Len(strGuid) = GuidTextLen) =>
        /\ sts = MFX_ERR_NONE
        /\ \A i \in 0..(GuidSize - 1) :
              LET hi == Hi(strGuid, i)
                  lo == Lo(strGuid, i)
              IN  /\ (IsHexDigit(hi) /\ IsHexDigit(lo)) =>
                         mfxGuid[i + 1] = 16 * Nibble(hi) + Nibble(lo)
                  /\ (IsHexDigit(hi) /\ ~IsHexDigit(lo)) =>
                         mfxGuid[i + 1] = Nibble(hi)
                  /\ StartsNothing(hi) => mfxGuid[i + 1] = 0
                  /\ ((IsSpace(hi) \/ hi = "+") /\ IsHexDigit(lo)) =>
                         mfxGuid[i + 1] = Nibble(lo)
                  /\ (hi = "-" /\ IsHexDigit(lo)) =>
                         mfxGuid[i + 1] = (Pow2(ByteWidth) - Nibble(lo)) % Pow2(ByteWidth)
                  /\ ((IsSpace(hi) \/ hi \in {"+", "-"}) /\ ~IsHexDigit(lo)) =>
                         mfxGuid[i + 1] = 0

C9_Witness ==
    /\ Converted
    /\ strGuid = Text32(<<"z","z">>, <<"1","g">>, 5)
    /\ sts = MFX_ERR_NONE
    /\ mfxGuid[6] = 1
    /\ mfxGuid[7] = 0

\* ------------------------------------------------------------------------
\* Properties of ParsePluginGuid
\* ------------------------------------------------------------------------

Parsed == pc = "ret" /\ fn = "ParsePluginGuid"

\* C10: when ConvertStringToGuid succeeds on the text (a symbolic name or
\* any 32-character text) the selection is tagged MFX_PLUGINLOAD_TYPE_GUID
\* and carries the identifier it produced; when it fails the selection is
\* the default-constructed one, type tag and identifier untouched, and is
\* not tagged MFX_PLUGINLOAD_TYPE_GUID.
C10_ParsePluginGuid ==
    Parsed =>
        LET r == ConvertStringToGuid(strGuid)
        IN  /\ (r.sts = MFX_ERR_NONE) =
                  (strGuid \in TableNames \/ Len(strGuid) = GuidTextLen)
            /\ r.sts = MFX_ERR_NONE =>
                  /\ pluginParams.type = MFX_PLUGINLOAD_TYPE_GUID
                  /\ pluginParams.pluginGuid = r.mfxGuid
            /\ r.sts # MFX_ERR_NONE =>
                  /\ pluginParams = sPluginParams
                  /\ pluginParams.type # MFX_PLUGINLOAD_TYPE_GUID

C10_Witness ==
    /\ Parsed
    /\ strGuid = <<"h","e","v","c","d","_","s">>
    /\ pluginParams.type = PLUGINLOAD_TYPE_UNSET
    /\ pluginParams.pluginGuid = MSDK_PLUGINGUID_NULL

\* ------------------------------------------------------------------------
\* The two FEI identifiers, and the dispatch on impl
\* ------------------------------------------------------------------------

HevceFeiHwName == <<"h","e","v","c","e","_","f","e","i","_","h","w">>

HardwareDefaults ==
    (IF ANDROID THEN {} ELSE HardwareDecodeDefaults)
    \cup HardwareEncodeDefaults
    \cup (IF WIN32 THEN {} ELSE HardwareFeiDefaults)
    \cup HardwareEncDefaults

\* C12 as stated: only impl = MFX_IMPL_SOFTWARE selects the software table;
\* for every other impl value (Decode, VP8) and (Encode, VP8) return the
\* hardware identifiers and (Decode, HEVC) the hardware HEVC decoder.
C12_OtherImplIsHardware ==
    Selected =>
        /\ impl = MFX_IMPL_SOFTWARE => pluginUID = TableEntry(SoftwareDefaults)
        /\ impl # MFX_IMPL_SOFTWARE =>
              /\ (type = MSDK_VDECODE /\ uCodecid = MFX_CODEC_VP8) =>
                    pluginUID = MFX_PLUGINID_VP8D_HW
              /\ (type = MSDK_VENCODE /\ uCodecid = MFX_CODEC_VP8) =>
                    pluginUID = MFX_PLUGINID_VP8E_HW
              /\ (type = MSDK_VDECODE /\ uCodecid = MFX_CODEC_HEVC) =>
                    pluginUID = MFX_PLUGINID_HEVCD_HW

\* C12 amended: only impl = MFX_IMPL_SOFTWARE selects the software table;
\* every other impl value is resolved through the hardware table as compiled
\* for the platform, so (Encode, VP8) returns the hardware VP8 encoder
\* everywhere, and where ANDROID is not defined (Decode, VP8) returns the
\* hardware VP8 decoder and (Decode, HEVC) the hardware, not the software,
\* HEVC decoder; with ANDROID defined both Decode results are null.
C12_OtherImplIsHardwareTable ==
    Selected =>
        /\ impl = MFX_IMPL_SOFTWARE => pluginUID = TableEntry(SoftwareDefaults)
        /\ impl # MFX_IMPL_SOFTWARE =>
              /\ pluginUID = TableEntry(HardwareDefaults)
              /\ (type = MSDK_VENCODE /\ uCodecid = MFX_CODEC_VP8) =>
                    pluginUID = MFX_PLUGINID_VP8E_HW
              /\ (~ANDROID /\ type = MSDK_VDECODE /\ uCodecid = MFX_CODEC_VP8) =>
                    pluginUID = MFX_PLUGINID_VP8D_HW
              /\ (~ANDROID /\ type = MSDK_VDECODE /\ uCodecid = MFX_CODEC_HEVC) =>
                    pluginUID = MFX_PLUGINID_HEVCD_HW /\ pluginUID # MFX_PLUGINID_HEVCD_SW
              /\ (ANDROID /\ type = MSDK_VDECODE) => pluginUID = MSDK_PLUGINGUID_NULL

C12_Witness ==
    /\ Selected
    /\ platform = "linux"
    /\ impl = MFX_IMPL_SOFTWARE + MFX_IMPL_VIA_D3D11
    /\ type = MSDK_VDECODE
    /\ uCodecid = MFX_CODEC_HEVC
    /\ pluginUID = MFX_PLUGINID_HEVCD_HW

\* ------------------------------------------------------------------------
\* The decode loop of hello-sharing-ocl-export (main)
\* ------------------------------------------------------------------------

\* DecodeFrameAsync calls after which the model stops
MaxCalls == 3

MFX_ERR_MORE_DATA == "MFX_ERR_MORE_DATA"

MFX_ERR_MORE_SURFACE == "MFX_ERR_MORE_SURFACE"

MFX_ERR_DEVICE_LOST == "MFX_ERR_DEVICE_LOST"

MFX_WRN_DEVICE_BUSY == "MFX_WRN_DEVICE_BUSY"

MFX_WRN_VIDEO_PARAM_CHANGED == "MFX_WRN_VIDEO_PARAM_CHANGED"

MFX_ERR_INCOMPATIBLE_VIDEO_PARAM == "MFX_ERR_INCOMPATIBLE_VIDEO_PARAM"

MFX_ERR_REALLOC_SURFACE == "MFX_ERR_REALLOC_SURFACE"

MFX_WRN_IN_EXECUTION == "MFX_WRN_IN_EXECUTION"

MFX_ERR_ABORTED == "MFX_ERR_ABORTED"

\* what a call into the library or into the helpers may return
Statuses ==
    {MFX_ERR_NONE, MFX_ERR_MORE_DATA, MFX_ERR_MORE_SURFACE, MFX_ERR_DEVICE_LOST,
     MFX_WRN_DEVICE_BUSY, MFX_WRN_VIDEO_PARAM_CHANGED,
     MFX_ERR_INCOMPATIBLE_VIDEO_PARAM, MFX_ERR_REALLOC_SURFACE,
     MFX_WRN_IN_EXECUTION, MFX_ERR_ABORTED, MFX_ERR_UNKNOWN}

\* the variables of the plugin functions, which main does not touch
pluginState ==
    <<platform, fn, strGuid, guid1, guid2, impl, type, uCodecid, mfxGuid,
      equal, pluginUID, pluginParams>>

\* main has passed its set-up (every VERIFY before the loop held) and is at
\* the test of the while loop
InitDecode ==
    /\ fn = "main"
    /\ pc = "while"
    /\ sts = MFX_ERR_NONE
    /\ LoopStart
    /\ platform = "windows"
    /\ strGuid = <<>>
    /\ guid1 = MSDK_PLUGINGUID_NULL /\ guid2 = MSDK_PLUGINGUID_NULL
    /\ impl = MFX_IMPL_AUTO /\ type = {} /\ uCodecid = NoValue
    /\ mfxGuid = MSDK_PLUGINGUID_NULL
    /\ equal = NoValue /\ pluginUID = NoValue /\ pluginParams = NoValue

\* VERIFY(ok, msg): go on when ok holds, leave the program otherwise
VERIFY(ok, next) == pc' = IF ok THEN next ELSE "aborted"

\* while (isStillGoing == true), and if (isDraining == false)
WhileTest ==
    /\ fn = "main" /\ pc = "while"
    /\ pc' = IF ~isStillGoing THEN "done"
             ELSE IF isDraining = FALSE THEN "read" ELSE "decode"
    /\ UNCHANGED <<pluginState, sts, loopVars>>

\* sts = ReadEncodedStream(bitstream, source); if (sts != MFX_ERR_NONE) ...
ReadEncodedStream ==
    /\ fn = "main" /\ pc = "read"
    /\ \E r \in Statuses :
          /\ sts' = r
          /\ isDraining' = IF r # MFX_ERR_NONE THEN TRUE ELSE isDraining
    /\ pc' = "decode"
    /\ UNCHANGED <<pluginState, isStillGoing, framenum, stsSurf, bs,
                   decSurfaceOut, exportedSurface, calls, events, syncSts,
                   frameBefore>>

\* sts = MFXVideoDECODE_DecodeFrameAsync(session, isDraining ? NULL : &bitstream, ...)
DecodeFrameAsync ==
    /\ fn = "main" /\ pc = "decode"
    /\ calls < MaxCalls
    /\ bs' = IF isDraining THEN "NULL" ELSE "&bitstream"
    /\ \E r \in Statuses :
          /\ sts' = r
          /\ decSurfaceOut' = IF r = MFX_ERR_NONE THEN "held" ELSE decSurfaceOut
    /\ calls' = calls + 1
    /\ events' = <<>>
    /\ exportedSurface' = "NULL"
    /\ frameBefore' = framenum
    /\ pc' = "switch"
    /\ UNCHANGED <<pluginState, isDraining, isStillGoing, framenum, stsSurf, syncSts>>

\* the statuses the switch has a case for, MFX_ERR_NONE apart
HandledStatuses ==
    {MFX_ERR_MORE_DATA, MFX_ERR_MORE_SURFACE, MFX_ERR_DEVICE_LOST,
     MFX_WRN_DEVICE_BUSY, MFX_WRN_VIDEO_PARAM_CHANGED,
     MFX_ERR_INCOMPATIBLE_VIDEO_PARAM, MFX_ERR_REALLOC_SURFACE}

\* MFX_ERR_MORE_DATA ends the loop whether draining or not
SwitchSts_MoreDataEnds ==
    /\ fn = "main" /\ pc = "switch"
    /\ pc' = IF sts = MFX_ERR_NONE THEN "sync" ELSE "while"
    /\ isStillGoing' =
          IF sts = MFX_ERR_NONE THEN isStillGoing
          ELSE IF sts = MFX_ERR_MORE_DATA THEN FALSE
          ELSE IF sts \in HandledStatuses THEN isStillGoing
          ELSE FALSE
    /\ UNCHANGED <<pluginState, sts, isDraining, framenum, stsSurf, bs,
                   decSurfaceOut, exportedSurface, calls, events, syncSts,
                   frameBefore>>

\* switch (sts): MFX_ERR_NONE enters the do loop, MFX_ERR_MORE_DATA ends the
\* loop when draining, the other cases only break, default ends the loop
SwitchSts ==
    /\ fn = "main" /\ pc = "switch"
    /\ pc' = IF sts = MFX_ERR_NONE THEN "sync" ELSE "while"
    /\ isStillGoing' =
          IF sts = MFX_ERR_NONE THEN isStillGoing
          ELSE IF sts = MFX_ERR_MORE_DATA
            THEN (IF isDraining THEN FALSE ELSE isStillGoing)
          ELSE IF sts \in HandledStatuses THEN isStillGoing
          ELSE FALSE
    /\ UNCHANGED <<pluginState, sts, isDraining, framenum, stsSurf, bs,
                   decSurfaceOut, exportedSurface, calls, events, syncSts,
                   frameBefore>>

\* sts = decSurfaceOut->FrameInterface->Synchronize(...); if (MFX_ERR_NONE == sts)
Synchronize ==
    /\ fn = "main" /\ pc = "sync"
    /\ \E r \in Statuses :
          /\ sts' = r
          /\ syncSts' = r
          /\ pc' = IF r = MFX_ERR_NONE THEN "export" ELSE "release"
    /\ UNCHANGED <<pluginState, isDraining, isStillGoing, framenum, stsSurf, bs,
                   decSurfaceOut, exportedSurface, calls, events, frameBefore>>

\* stsSurf = decSurfaceOut->FrameInterface->Export(...); VERIFY
Export ==
    /\ fn = "main" /\ pc = "export"
    /\ \E r \in Statuses :
          /\ stsSurf' = r
          /\ exportedSurface' = IF r = MFX_ERR_NONE THEN "held" ELSE exportedSurface
          /\ VERIFY(r = MFX_ERR_NONE, "copy")
    /\ events' = Append(events, "Export")
    /\ UNCHANGED <<pluginState, sts, isDraining, isStillGoing, framenum, bs,
                   decSurfaceOut, calls, syncSts, frameBefore>>

\* sts = oclCtx->CopySurfaceOCLToSystem(...); VERIFY
CopySurfaceOCLToSystem ==
    /\ fn = "main" /\ pc = "copy"
    /\ \E r \in Statuses : sts' = r /\ VERIFY(r = MFX_ERR_NONE, "releaseocl")
    /\ UNCHANGED <<pluginState, loopVars>>

\* sts = oclCtx->ReleaseOCLSurface(...); VERIFY
ReleaseOCLSurface ==
    /\ fn = "main" /\ pc = "releaseocl"
    /\ \E r \in Statuses : sts' = r /\ VERIFY(r = MFX_ERR_NONE, "write")
    /\ UNCHANGED <<pluginState, loopVars>>

\* sts = WriteRawFrameCPU_NV12(&cpuFrameInfo, sink); VERIFY
WriteRawFrameCPU_NV12 ==
    /\ fn = "main" /\ pc = "write"
    /\ \E r \in Statuses : sts' = r /\ VERIFY(r = MFX_ERR_NONE, "releaseexported")
    /\ UNCHANGED <<pluginState, loopVars>>

\* sts = exportedSurface->SurfaceInterface.Release(...); VERIFY; framenum++
ReleaseExportedSurface ==
    /\ fn = "main" /\ pc = "releaseexported"
    /\ \E r \in Statuses :
          /\ sts' = r
          /\ exportedSurface' = IF r = MFX_ERR_NONE THEN "released" ELSE exportedSurface
          /\ framenum' = IF r = MFX_ERR_NONE THEN framenum + 1 ELSE framenum
          /\ VERIFY(r = MFX_ERR_NONE, "release")
    /\ events' = Append(events, "ReleaseExported")
    /\ UNCHANGED <<pluginState, isDraining, isStillGoing, stsSurf, bs,
                   decSurfaceOut, calls, syncSts, frameBefore>>

\* the decode output surface is released only after a successful Synchronize
ReleaseDecSurface_OnSuccessOnly ==
    /\ fn = "main" /\ pc = "release"
    /\ IF sts = MFX_ERR_NONE
         THEN \E r \in Statuses :
                 /\ sts' = r
                 /\ decSurfaceOut' = IF r = MFX_ERR_NONE THEN "released" ELSE decSurfaceOut
                 /\ VERIFY(r = MFX_ERR_NONE, "dowhile")
                 /\ events' = Append(events, "ReleaseDec")
         ELSE /\ pc' = "dowhile"
              /\ UNCHANGED <<sts, decSurfaceOut, events>>
    /\ UNCHANGED <<pluginState, isDraining, isStillGoing, framenum, stsSurf, bs,
                   exportedSurface, calls, syncSts, frameBefore>>

\* if (sts != MFX_WRN_IN_EXECUTION) { sts = ...->Release(decSurfaceOut); VERIFY }
ReleaseDecSurface ==
    /\ fn = "main" /\ pc = "release"
    /\ IF sts # MFX_WRN_IN_EXECUTION
         THEN \E r \in Statuses :
                 /\ sts' = r
                 /\ decSurfaceOut' = IF r = MFX_ERR_NONE THEN "released" ELSE decSurfaceOut
                 /\ VERIFY(r = MFX_ERR_NONE, "dowhile")
                 /\ events' = Append(events, "ReleaseDec")
         ELSE /\ pc' = "dowhile"
              /\ UNCHANGED <<sts, decSurfaceOut, events>>
    /\ UNCHANGED <<pluginState, isDraining, isStillGoing, framenum, stsSurf, bs,
                   exportedSurface, calls, syncSts, frameBefore>>

\* } while (sts == MFX_WRN_IN_EXECUTION); break;
DoWhileTest ==
    /\ fn = "main" /\ pc = "dowhile"
    /\ pc' = IF sts = MFX_WRN_IN_EXECUTION THEN "sync" ELSE "while"
    /\ UNCHANGED <<pluginState, sts, loopVars>>

NextDecode ==
    \/ WhileTest
    \/ ReadEncodedStream
    \/ DecodeFrameAsync
    \/ SwitchSts
    \/ Synchronize
    \/ Export
    \/ CopySurfaceOCLToSystem
    \/ ReleaseOCLSurface
    \/ WriteRawFrameCPU_NV12
    \/ ReleaseExportedSurface
    \/ ReleaseDecSurface
    \/ DoWhileTest

SpecDecode == InitDecode /\ [][NextDecode]_vars

\* ------------------------------------------------------------------------
\* Properties of the decode loop
\* ------------------------------------------------------------------------

\* the statuses of DecodeFrameAsync after which the loop goes on whatever
\* the draining state
KeepGoingStatuses ==
    {"MFX_ERR_NONE", "MFX_ERR_MORE_SURFACE", "MFX_ERR_DEVICE_LOST",
     "MFX_WRN_DEVICE_BUSY", "MFX_WRN_VIDEO_PARAM_CHANGED",
     "MFX_ERR_INCOMPATIBLE_VIDEO_PARAM", "MFX_ERR_REALLOC_SURFACE"}

\* one step of main keeps to the draining discipline
DrainingStep ==
    /\ isDraining => isDraining'
    /\ (~isDraining /\ isDraining') => pc = "read" /\ sts' # "MFX_ERR_NONE"
    /\ isDraining => pc' # "read"
    /\ (pc = "decode" /\ pc' = "switch") =>
          bs' = IF isDraining THEN "NULL" ELSE "&bitstream"
    /\ (isStillGoing /\ ~isStillGoing') =>
          /\ pc = "switch"
          /\ \/ sts = "MFX_ERR_MORE_DATA" /\ isDraining
             \/ sts \notin KeepGoingStatuses \cup {"MFX_ERR_MORE_DATA"}
    /\ (pc = "switch" /\ (sts \in KeepGoingStatuses
                          \/ (sts = "MFX_ERR_MORE_DATA" /\ ~isDraining))) =>
          isStillGoing' = isStillGoing /\ pc' # "done"
    /\ pc' = "done" => ~isStillGoing'

\* C13: once ReadEncodedStream has failed and isDraining is true it stays
\* true, the stream is not read again and every later DecodeFrameAsync call
\* gets a NULL bitstream; the loop ends only on MFX_ERR_MORE_DATA while
\* draining or on a status the switch has no case for; MFX_ERR_MORE_DATA
\* before draining and the other handled statuses leave the loop running.
C13_DrainingAndExit == [][fn = "main" => DrainingStep]_vars

C13_Witness ==
    /\ fn = "main"
    /\ pc = "done"
    /\ isDraining
    /\ sts = MFX_ERR_MORE_DATA
    /\ bs = "NULL"
    /\ calls = MaxCalls

AtLoopTop == fn = "main" /\ pc \in {"while", "read", "decode", "done"}

\* C14: when the loop comes round again after a DecodeFrameAsync that
\* returned MFX_ERR_NONE (no VERIFY having failed), the decode output
\* surface has been released exactly once, after the last Synchronize; if
\* that Synchronize returned MFX_ERR_NONE the surface was exported, the
\* exported surface released before it, and framenum went up by one;
\* otherwise framenum is unchanged.
C14_SurfaceReleasedOnce ==
    fn = "main" =>
        /\ AtLoopTop =>
              /\ decSurfaceOut # "held"
              /\ events \in {<<>>, <<"ReleaseDec">>,
                             <<"Export", "ReleaseExported", "ReleaseDec">>}
              /\ events = <<"Export", "ReleaseExported", "ReleaseDec">> =>
                    /\ syncSts = MFX_ERR_NONE
                    /\ framenum = frameBefore + 1
                    /\ exportedSurface = "released"
              /\ events = <<"ReleaseDec">> =>
                    /\ syncSts \notin {MFX_ERR_NONE, MFX_WRN_IN_EXECUTION}
                    /\ framenum = frameBefore
              /\ events = <<>> => framenum = frameBefore
        /\ (\E k \in 1..Len(events) : events[k] = "ReleaseDec") =>
              exportedSurface # "held"
        /\ pc = "sync" => decSurfaceOut = "held"

C14_Witness ==
    /\ fn = "main"
    /\ pc = "while"
    /\ calls = 2
    /\ events = <<"Export", "ReleaseExported", "ReleaseDec">>
    /\ decSurfaceOut = "released"
    /\ framenum = 2

====
